---- MODULE Spec2Model ----
(***************************************************************************)
(* A model of src/index.js: the per-collection accessor (ModelClass), the  *)
(* connection handle (Connection) and the named registry of handles        *)
(* (module.exports).  The document database driver (mongoose) is external: *)
(* it is modelled by the requests index.js issues to it and by the         *)
(* completions it delivers to the callbacks index.js registers.            *)
(***************************************************************************)
EXTENDS Integers, Sequences, FiniteSets, TLC

VARIABLES coll, op, exportsObj, registry, handles, calls, pending

vars == <<coll, op, exportsObj, registry, handles, calls, pending>>

accVars == <<coll, op>>

regVars == <<exportsObj, registry, handles, calls, pending>>

(***************************************************************************)
(* Bounds of the model.                                                    *)
(***************************************************************************)
\* primary ids are 1..MaxId (0 stands for an absent id)
MaxId == 3
\* page sizes offered to get are -1..MaxPageSize
MaxPageSize == 2
\* page numbers offered to get are 1..MaxPage (0 stands for an absent page)
MaxPage == 2
\* number of connectDatebase/closeDatabase calls in one behaviour
MaxCalls == 3

Ids == 1..MaxId

\* values of the one data field v of a document
Vals == {0, 1}

(***************************************************************************)
(* Documents, filters, options.                                            *)
(***************************************************************************)
Doc == [id : Ids, v : Vals]

\* a constraint on one key of a filter: absent, equality, or {$gt: val}
AnyC == [rel |-> "any", val |-> 0]

EqC(x) == [rel |-> "eq", val |-> x]

GtC(x) == [rel |-> "gt", val |-> x]

\* the filter {} ; a filter maps the keys _id and v to constraints
NoFilter == [id |-> AnyC, v |-> AnyC]

Holds(c, x) ==
    CASE c.rel = "any" -> TRUE
      [] c.rel = "eq" -> x = c.val
      [] c.rel = "gt" -> x > c.val

Matches(d, f) == Holds(f.id, d.id) /\ Holds(f.v, d.v)

\* a sort option: absent, a bare direction, or a field -> direction mapping
NoSort == [kind |-> "none", field |-> "id", dir |-> 0]

DirSort(d) == [kind |-> "dir", field |-> "id", dir |-> d]

MapSort(f, d) == [kind |-> "map", field |-> f, dir |-> d]

\* the options bag of get; 0 stands for an absent (or zero) number
NoOptions == [pageSize |-> 0, page |-> 0, lastId |-> 0, sort |-> NoSort]

\* a configured query: filter, optional skip, optional limit, optional sort
NoPlan == [filter |-> NoFilter, hasSkip |-> FALSE, skip |-> 0,
           hasLimit |-> FALSE, limit |-> 0, sort |-> NoSort]

(***************************************************************************)
(* The driver's query execution (Model.find(...).skip().limit().sort()).   *)
(***************************************************************************)
RECURSIVE SelectMatching(_, _)
SelectMatching(s, f) ==
    IF s = <<>> THEN <<>>
    ELSE IF Matches(Head(s), f) THEN <<Head(s)>> \o SelectMatching(Tail(s), f)
         ELSE SelectMatching(Tail(s), f)

SortKey(d, srt) == (IF srt.field = "id" THEN d.id ELSE d.v) * srt.dir

RECURSIVE InsertSorted(_, _, _)
InsertSorted(s, d, srt) ==
    IF s = <<>> THEN <<d>>
    ELSE IF SortKey(Head(s), srt) <= SortKey(d, srt)
         THEN <<Head(s)>> \o InsertSorted(Tail(s), d, srt)
         ELSE <<d>> \o s

RECURSIVE SortDocs(_, _)
SortDocs(s, srt) ==
    IF s = <<>> THEN <<>>
    ELSE InsertSorted(SortDocs(SubSeq(s, 1, Len(s) - 1), srt), s[Len(s)], srt)

Abs(n) == IF n < 0 THEN 0 - n ELSE n

Min(a, b) == IF a < b THEN a ELSE b

Skip(s, n) == SubSeq(s, n + 1, Len(s))

Limit(s, n) == SubSeq(s, 1, Min(Len(s), Abs(n)))

\* the documents a configured query returns from collection c
ExecPlan(c, p) ==
    LET m == SelectMatching(c, p.filter)
        srt == IF p.sort.kind = "none" THEN m ELSE SortDocs(m, p.sort)
        sk == IF p.hasSkip THEN Skip(srt, p.skip) ELSE srt
    IN IF p.hasLimit THEN Limit(sk, p.limit) ELSE sk

\* the driver refuses a negative skip
PlanAccepted(p) == ~(p.hasSkip /\ p.skip < 0)

(***************************************************************************)
(* ModelClass.prototype.get: the translation of (query, options) into a    *)
(* configured query.  JavaScript truthiness: 0 and an absent value are     *)
(* falsy, every other number and every object is truthy.                   *)
(***************************************************************************)
Truthy(n) == n # 0

SortGiven(srt) == srt.kind = "map" \/ (srt.kind = "dir" /\ srt.dir # 0)

\* DefaultSort as it would be with an ascending default
DefaultSortAscending(srt) == IF SortGiven(srt) THEN srt ELSE DirSort(1)

\* options.sort = options.sort || -1
DefaultSort(srt) == IF SortGiven(srt) THEN srt ELSE DirSort(0 - 1)

\* {}.toString.call(sort) === '[object Object]' ? sort : {_id: sort}
ResolveSort(srt) == IF srt.kind = "map" THEN srt ELSE MapSort("id", srt.dir)

\* mongoose.Schema.Types.ObjectId(options.lastId): the driver's conversion of
\* the caller's lastId, taken to yield the id that lastId denotes
ObjectIdOf(lastId) == lastId

\* CursorPage as it would be if the cursor branch also skipped by page
CursorPageSkipping(query, options) ==
    LET q1 == [query EXCEPT !.id = GtC(ObjectIdOf(options.lastId))]
    IN [query |-> q1, options |-> options,
        plan |-> [NoPlan EXCEPT !.filter = q1,
                                !.hasSkip = TRUE,
                                !.skip = options.pageSize * options.page,
                                !.hasLimit = TRUE, !.limit = options.pageSize]]

\* the branch taken when options.pageSize and options.lastId are truthy
CursorPage(query, options) ==
    LET q1 == [query EXCEPT !.id = GtC(ObjectIdOf(options.lastId))]
    IN [query |-> q1, options |-> options,
        plan |-> [NoPlan EXCEPT !.filter = q1,
                                !.hasLimit = TRUE, !.limit = options.pageSize]]

\* OffsetPage as it would be with the skip one page too far
OffsetPageOffByOne(query, options) ==
    LET pg == IF Truthy(options.page) THEN options.page ELSE 1
    IN [query |-> query, options |-> [options EXCEPT !.page = pg],
        plan |-> [NoPlan EXCEPT !.filter = query,
                                !.hasSkip = TRUE,
                                !.skip = options.pageSize * pg,
                                !.hasLimit = TRUE, !.limit = options.pageSize]]

\* the branch taken when options.pageSize is truthy and options.lastId falsy
OffsetPage(query, options) ==
    LET pg == IF Truthy(options.page) THEN options.page ELSE 1
    IN [query |-> query, options |-> [options EXCEPT !.page = pg],
        plan |-> [NoPlan EXCEPT !.filter = query,
                                !.hasSkip = TRUE,
                                !.skip = options.pageSize * (pg - 1),
                                !.hasLimit = TRUE, !.limit = options.pageSize]]

\* if (options.pageSize) { ... options.sort = options.sort || -1 }
Paging(query, options) ==
    IF Truthy(options.pageSize)
    THEN LET g == IF Truthy(options.lastId) THEN CursorPage(query, options)
                  ELSE OffsetPage(query, options)
         IN [g EXCEPT !.options.sort = DefaultSort(g.options.sort)]
    ELSE [query |-> query, options |-> options,
          plan |-> [NoPlan EXCEPT !.filter = query]]

\* the whole of get up to Query.exec: the configured query, and the caller's
\* query and options objects as get leaves them
GetPlan(query, options) ==
    LET g == Paging(query, options)
    IN IF SortGiven(g.options.sort)
       THEN [g EXCEPT !.plan.sort = ResolveSort(g.options.sort)]
       ELSE g

(***************************************************************************)
(* One accessor operation in flight: its arguments, its position, the      *)
(* callback it delivered.                                                  *)
(***************************************************************************)
NoCb == [called |-> FALSE, err |-> "none", res |-> <<>>, isNull |-> FALSE]

\* callback(error, null)
CbError(e) == [called |-> TRUE, err |-> e, res |-> <<>>, isNull |-> TRUE]

\* callback(null, docs) with a sequence of documents
CbDocs(ds) == [called |-> TRUE, err |-> "none", res |-> ds, isNull |-> FALSE]

\* callback(null, doc) with one document, or null when ds is empty
CbOne(ds) ==
    [called |-> TRUE, err |-> "none",
     res |-> IF ds = <<>> THEN <<>> ELSE <<Head(ds)>>, isNull |-> ds = <<>>]

IdleOp ==
    [name |-> "none", pc |-> "idle", query |-> NoFilter, id |-> 0, data |-> 0,
     multi |-> FALSE, options |-> NoOptions, queryObj |-> NoFilter,
     optionsObj |-> NoOptions, plan |-> NoPlan, found |-> <<>>, cb |-> NoCb,
     writes |-> 0, round |-> 0, prev |-> NoCb, raced |-> FALSE]

Ready == op.pc \in {"idle", "done"}

Deliver(r, c) == [r EXCEPT !.pc = "done", !.cb = c]

\* get(query, options, callback) up to Query.exec(callback)
StartGet(r, query, options) ==
    LET g == GetPlan(query, options)
    IN [r EXCEPT !.pc = "exec", !.plan = g.plan]

\* Model.findById / findByIdAndUpdate / findByIdAndRemove select by _id
ById(i) == [NoFilter EXCEPT !.id = EqC(i)]

\* the driver's update: {$set: {v: x}} on the first match, or on all with multi
RECURSIVE ApplySet(_, _, _, _)
ApplySet(c, f, x, multi) ==
    IF c = <<>> THEN <<>>
    ELSE IF Matches(Head(c), f)
         THEN <<[Head(c) EXCEPT !.v = x]>>
              \o (IF multi THEN ApplySet(Tail(c), f, x, multi) ELSE Tail(c))
         ELSE <<Head(c)>> \o ApplySet(Tail(c), f, x, multi)

\* the driver's remove: every matching document goes
RECURSIVE RemoveMatching(_, _)
RemoveMatching(c, f) ==
    IF c = <<>> THEN <<>>
    ELSE IF Matches(Head(c), f) THEN RemoveMatching(Tail(c), f)
         ELSE <<Head(c)>> \o RemoveMatching(Tail(c), f)

\* the driver assigns ids in increasing order
NextId(c) == IF c = <<>> THEN 1 ELSE c[Len(c)].id + 1

(***************************************************************************)
(* The accessor's operations.  Every call into the driver suspends the     *)
(* operation; the matching ...Done action is the driver's completion       *)
(* running the callback index.js registered.  The driver may fail any      *)
(* request.                                                                *)
(***************************************************************************)
NewOp(name, pc, query, id, data) ==
    [IdleOp EXCEPT !.name = name, !.pc = pc, !.query = query, !.queryObj = query,
                   !.id = id, !.data = data]

\* get(query, options, callback); get(callback) and get(query, callback) are
\* the calls with the filter {} and with no options
GetCall(query, options) ==
    /\ Ready
    /\ LET g == GetPlan(query, options)
       IN op' = [StartGet(NewOp("get", "exec", query, 0, 0), query, options)
                    EXCEPT !.options = options, !.queryObj = g.query,
                           !.optionsObj = g.options]
    /\ UNCHANGED <<coll, regVars>>

\* Query.exec(callback): the driver hands (error, docs) to the callback
ExecDone ==
    /\ op.pc = "exec"
    /\ \/ /\ PlanAccepted(op.plan)
          /\ op' = Deliver(op, CbDocs(ExecPlan(coll, op.plan)))
       \/ op' = Deliver(op, CbError("driver"))
    /\ UNCHANGED <<coll, regVars>>

\* getById(id, callback): Model.findById(id, ...)
GetByIdCall(i) ==
    /\ Ready
    /\ op' = NewOp("getById", "findById", ById(i), i, 0)
    /\ UNCHANGED <<coll, regVars>>

\* the callback of findById (getById, and the re-fetch of setById/updateById)
FindByIdDone ==
    /\ op.pc = "findById"
    /\ \/ op' = Deliver(op, CbOne(SelectMatching(coll, ById(op.id))))
       \/ op' = Deliver(op, CbError("driver"))
    /\ UNCHANGED <<coll, regVars>>

\* getOne(query, callback): Model.findOne(query, ...)
GetOneCall(query) ==
    /\ Ready
    /\ op' = NewOp("getOne", "findOne", query, 0, 0)
    /\ UNCHANGED <<coll, regVars>>

FindOneDone ==
    /\ op.pc = "findOne"
    /\ \/ op' = Deliver(op, CbOne(SelectMatching(coll, op.query)))
       \/ op' = Deliver(op, CbError("driver"))
    /\ UNCHANGED <<coll, regVars>>

\* set(query, data, callback): Model.find(query, ...) is the existence check
SetCall(query, x) ==
    /\ Ready
    /\ op' = NewOp("set", "setFind", query, 0, x)
    /\ UNCHANGED <<coll, regVars>>

\* SetFindDone as it would be without the result.length > 0 test
SetFindDoneUnchecked ==
    /\ op.pc = "setFind"
    /\ LET result == SelectMatching(coll, op.query)
       IN \/ op' = Deliver(op, CbError("driver"))
          \/ op' = [op EXCEPT !.pc = "setUpdate", !.found = result,
                              !.writes = @ + 1]
    /\ UNCHANGED <<coll, regVars>>

\* the callback of the existence check of set
SetFindDone ==
    /\ op.pc = "setFind"
    /\ LET result == SelectMatching(coll, op.query)
       IN \/ op' = Deliver(op, CbError("driver"))
          \/ /\ Len(result) > 0
             /\ op' = [op EXCEPT !.pc = "setUpdate", !.found = result,
                                 !.writes = @ + 1]
          \/ /\ Len(result) = 0
             /\ op' = Deliver(op, CbError("not found"))
    /\ UNCHANGED <<coll, regVars>>

\* this.get({_id: result[0]._id}, callback): what set fetches after its update
SetRefetch(r) == StartGet(r, ById(r.found[1].id), NoOptions)

\* the callback of Model.update(query, {$set: data}, {multi: true}, ...)
SetUpdateDone ==
    /\ op.pc = "setUpdate"
    /\ \/ /\ op' = Deliver(op, CbError("driver"))
          /\ UNCHANGED coll
       \/ /\ coll' = ApplySet(coll, op.query, op.data, TRUE)
          /\ op' = SetRefetch(op)
    /\ UNCHANGED regVars

\* setById(id, data, callback): Model.findByIdAndUpdate(id, {$set: data}, ...)
SetByIdCall(i, x) ==
    /\ Ready
    /\ op' = [NewOp("setById", "findByIdAndUpdate", ById(i), i, x)
                 EXCEPT !.writes = 1]
    /\ UNCHANGED <<coll, regVars>>

\* updateById(id, update, callback): Model.findByIdAndUpdate(id, update, ...)
UpdateByIdCall(i, x) ==
    /\ Ready
    /\ op' = [NewOp("updateById", "findByIdAndUpdate", ById(i), i, x)
                 EXCEPT !.writes = 1]
    /\ UNCHANGED <<coll, regVars>>

\* the callback of findByIdAndUpdate: on success this.getById(id, callback)
FindByIdAndUpdateDone ==
    /\ op.pc = "findByIdAndUpdate"
    /\ \/ /\ op' = Deliver(op, CbError("driver"))
          /\ UNCHANGED coll
       \/ /\ coll' = ApplySet(coll, ById(op.id), op.data, FALSE)
          /\ op' = [op EXCEPT !.pc = "findById"]
    /\ UNCHANGED regVars

\* update(query, update, options, callback): Model.update(query, update, options, ...)
UpdateCall(query, x, multi) ==
    /\ Ready
    /\ op' = [NewOp("update", "update", query, 0, x)
                 EXCEPT !.multi = multi, !.writes = 1]
    /\ UNCHANGED <<coll, regVars>>

\* the documents the driver's update writes to: the first match, or all of
\* them with multi
Touched(c, f, multi) ==
    LET m == SelectMatching(c, f)
    IN IF multi \/ m = <<>> THEN m ELSE <<Head(m)>>

\* the callback of update's Model.update: on success this.get(query, callback);
\* found keeps the documents the driver wrote to
UpdateDone ==
    /\ op.pc = "update"
    /\ \/ /\ op' = Deliver(op, CbError("driver"))
          /\ UNCHANGED coll
       \/ /\ coll' = ApplySet(coll, op.query, op.data, op.multi)
          /\ op' = StartGet([op EXCEPT !.found = Touched(coll, op.query, op.multi)],
                            op.query, NoOptions)
    /\ UNCHANGED regVars

\* delete(query, callback): Model.find(query, ...) is the existence check
DeleteCall(query) ==
    /\ Ready
    /\ op' = NewOp("delete", "deleteFind", query, 0, 0)
    /\ UNCHANGED <<coll, regVars>>

\* DeleteFindDone as it would be if the check and the remove were one request
DeleteFindDoneAtomic ==
    /\ op.pc = "deleteFind"
    /\ LET result == SelectMatching(coll, op.query)
       IN \/ /\ op' = Deliver(op, CbError("driver"))
             /\ UNCHANGED coll
          \/ /\ Len(result) > 0
             /\ coll' = RemoveMatching(coll, op.query)
             /\ op' = Deliver([op EXCEPT !.found = result, !.writes = @ + 1],
                              CbDocs(result))
          \/ /\ Len(result) = 0
             /\ op' = Deliver(op, CbError("not found"))
             /\ UNCHANGED coll
    /\ UNCHANGED regVars

\* the callback of the existence check of delete
DeleteFindDone ==
    /\ op.pc = "deleteFind"
    /\ LET result == SelectMatching(coll, op.query)
       IN \/ op' = Deliver(op, CbError("driver"))
          \/ /\ Len(result) > 0
             /\ op' = [op EXCEPT !.pc = "remove", !.found = result,
                                 !.writes = @ + 1]
          \/ /\ Len(result) = 0
             /\ op' = Deliver(op, CbError("not found"))
    /\ UNCHANGED <<coll, regVars>>

\* RemoveDone as it would be if the callback were handed what Model.remove
\* passes to its own callback, which holds no documents
RemoveDoneDriverResult ==
    /\ op.pc = "remove"
    /\ \/ /\ op' = Deliver(op, CbError("driver"))
          /\ UNCHANGED coll
       \/ /\ coll' = RemoveMatching(coll, op.query)
          /\ op' = Deliver(op, CbDocs(<<>>))
    /\ UNCHANGED regVars

\* the callback of Model.remove(query, ...): callback(null, result)
RemoveDone ==
    /\ op.pc = "remove"
    /\ \/ /\ op' = Deliver(op, CbError("driver"))
          /\ UNCHANGED coll
       \/ /\ coll' = RemoveMatching(coll, op.query)
          /\ op' = Deliver(op, CbDocs(op.found))
    /\ UNCHANGED regVars

\* deleteById(id, callback): Model.findByIdAndRemove(id, ...)
DeleteByIdCall(i) ==
    /\ Ready
    /\ op' = [NewOp("deleteById", "findByIdAndRemove", ById(i), i, 0)
                 EXCEPT !.writes = 1]
    /\ UNCHANGED <<coll, regVars>>

\* the callback of findByIdAndRemove: callback(null, result)
FindByIdAndRemoveDone ==
    /\ op.pc = "findByIdAndRemove"
    /\ \/ /\ op' = Deliver(op, CbError("driver"))
          /\ UNCHANGED coll
       \/ /\ coll' = RemoveMatching(coll, ById(op.id))
          /\ op' = Deliver(op, CbOne(SelectMatching(coll, ById(op.id))))
    /\ UNCHANGED regVars

\* create(data, callback): Model.create(data, ...)
CreateCall(x) ==
    /\ Ready
    /\ op' = [NewOp("create", "create", NoFilter, 0, x) EXCEPT !.writes = 1]
    /\ UNCHANGED <<coll, regVars>>

\* the callback of Model.create: the driver stores the document under a new id
CreateDone ==
    /\ op.pc = "create"
    /\ \/ /\ op' = Deliver(op, CbError("driver"))
          /\ UNCHANGED coll
       \/ /\ NextId(coll) \in Ids
          /\ coll' = Append(coll, [id |-> NextId(coll), v |-> op.data])
          /\ op' = Deliver([op EXCEPT !.id = NextId(coll)],
                           CbOne(<<[id |-> NextId(coll), v |-> op.data]>>))
    /\ UNCHANGED regVars

(***************************************************************************)
(* Writes of other operations.  The accessor keeps no queue: while one     *)
(* operation waits for the driver, the driver may complete the write       *)
(* request of another operation on the same collection.  raced records     *)
(* that such a write took effect after the existence check of the waiting  *)
(* operation and before its own write.                                     *)
(***************************************************************************)
Waiting == op.pc \notin {"idle", "done"}

Raced(r) == [r EXCEPT !.raced = @ \/ r.pc \in {"setUpdate", "remove"}]

\* the Model.update of another set takes effect
OtherUpdateDone(query, x) ==
    /\ Waiting
    /\ coll' = ApplySet(coll, query, x, TRUE)
    /\ op' = Raced(op)
    /\ UNCHANGED regVars

\* the Model.remove of another delete takes effect
OtherRemoveDone(query) ==
    /\ Waiting
    /\ coll' = RemoveMatching(coll, query)
    /\ op' = Raced(op)
    /\ UNCHANGED regVars

\* the Model.create of another create takes effect
OtherCreateDone(x) ==
    /\ Waiting
    /\ NextId(coll) \in Ids
    /\ coll' = Append(coll, [id |-> NextId(coll), v |-> x])
    /\ op' = Raced(op)
    /\ UNCHANGED regVars

(***************************************************************************)
(* The inputs offered to the accessor.                                     *)
(***************************************************************************)
\* filters: {}, {v: x}, {_id: i}, {_id: {$gt: i}}
Filters ==
    {NoFilter} \cup {[NoFilter EXCEPT !.v = EqC(x)] : x \in Vals}
               \cup {ById(i) : i \in Ids}
               \cup {[NoFilter EXCEPT !.id = GtC(i)] : i \in Ids}

Sorts == {NoSort, DirSort(1), DirSort(0 - 1), MapSort("v", 1)}

OptionsBags ==
    [pageSize : (0 - 1)..MaxPageSize, page : 0..MaxPage, lastId : 0..MaxId,
     sort : Sorts]

RECURSIVE AscendingSeq(_)
AscendingSeq(S) ==
    IF S = {} THEN <<>>
    ELSE LET m == CHOOSE x \in S : \A y \in S : x <= y
         IN <<m>> \o AscendingSeq(S \ {m})

\* the collections a behaviour may start from: any set of documents with
\* distinct ids, stored in the order of their ids
Collections ==
    UNION {{[k \in 1..Cardinality(S) |->
                [id |-> AscendingSeq(S)[k], v |-> f[AscendingSeq(S)[k]]]]
             : f \in [S -> Vals]} : S \in SUBSET Ids}

(***************************************************************************)
(* Connection and the registry (module.exports).  Handles are numbered in  *)
(* the order new Connection(...) creates them; 0 stands for undefined.     *)
(***************************************************************************)
\* the connection names offered to connectDatebase and closeDatabase
Names == {"a", "b", "_connections"}

NoProps == [n \in Names |-> 0]

\* an options object: "" stands for an absent field
EmptyOptions ==
    [kind |-> "object", user |-> "", pass |-> "", port |-> "", poolSize |-> "",
     useMongoClient |-> ""]

\* open("h1", "d1") and open("h2", "d2", {user, pass, port, poolSize}, callback)
OpenArgs ==
    {[host |-> "h1", db |-> "d1", opts |-> [EmptyOptions EXCEPT !.kind = "absent"],
      cb |-> FALSE],
     [host |-> "h2", db |-> "d2",
      opts |-> [EmptyOptions EXCEPT !.user = "u", !.pass = "p", !.port = "4000",
                                    !.poolSize = "5"],
      cb |-> TRUE]}

\* every way the third argument of open can look: absent, a function, or an
\* object with any of user, pass, port, poolSize and useMongoClient
UriOptions ==
    {[EmptyOptions EXCEPT !.kind = k] : k \in {"absent", "function"}}
        \cup [kind : {"object"}, user : {"", "u"}, pass : {"", "p"},
              port : {"", "4000"}, poolSize : {"", "5"},
              useMongoClient : {"", "false", "true"}]

\* open("h1", "d1", options, callback) over every options argument
UriArgs == [host : {"h1"}, db : {"d1"}, opts : UriOptions, cb : BOOLEAN]

\* FormatUri as it would be without delete dbOptions.port
FormatUriKeepingPort(args) ==
    LET dbOptions == IF args.opts.kind = "object" THEN args.opts ELSE EmptyOptions
        port == IF dbOptions.port # "" THEN dbOptions.port ELSE "27017"
        base == IF dbOptions.user # "" /\ dbOptions.pass # ""
                THEN <<"mongodb://", dbOptions.user, ":", dbOptions.pass, "@",
                       args.host, ":", port>>
                ELSE <<"mongodb://", args.host, ":", port>>
    IN [uri |-> base \o <<"/", args.db>>,
        options |-> [dbOptions EXCEPT !.user = "", !.pass = "",
                                      !.useMongoClient = "true"],
        callback |-> IF args.opts.kind = "function" THEN TRUE ELSE args.cb]

\* Connection.prototype.formatUri: the uri, the options it forwards, and
\* whether the caller gave a callback
FormatUri(args) ==
    LET dbOptions == IF args.opts.kind = "object" THEN args.opts ELSE EmptyOptions
        port == IF dbOptions.port # "" THEN dbOptions.port ELSE "27017"
        base == IF dbOptions.user # "" /\ dbOptions.pass # ""
                THEN <<"mongodb://", dbOptions.user, ":", dbOptions.pass, "@",
                       args.host, ":", port>>
                ELSE <<"mongodb://", args.host, ":", port>>
    IN [uri |-> base \o <<"/", args.db>>,
        options |-> [dbOptions EXCEPT !.user = "", !.pass = "", !.port = "",
                                      !.useMongoClient = "true"],
        callback |-> IF args.opts.kind = "function" THEN TRUE ELSE args.cb]

\* the caller's arguments after formatUri: dbOptions is the caller's object
\* when it is a plain object, and the deletes and the assignment act on it
ArgsAfter(args) ==
    IF args.opts.kind = "object"
    THEN [args EXCEPT !.opts = FormatUri(args).options]
    ELSE args

\* function Connection(name, ...args) before it opens
NewHandle(name) ==
    [name |-> name, connected |-> FALSE, listeners |-> 0, connectUri |-> <<>>,
     connectOptions |-> EmptyOptions, props |-> NoProps,
     drvOpen |-> FALSE, drvUri |-> <<>>]

\* this._connections: the object the exports object holds under that key
Conns == exportsObj["_connections"]

\* this._connections[name]
RegGet(name) == IF Conns = 0 THEN registry[name] ELSE handles[Conns].props[name]

\* one call of connectDatebase or closeDatabase, and what became of it
NewCall(fn, name, args, h, wasConnected) ==
    [fn |-> fn, name |-> name, args |-> args, handle |-> h,
     wasConnected |-> wasConnected, ret |-> 0, closeDone |-> FALSE,
     openIssued |-> FALSE, openCb |-> "none", cbCount |-> 0]

\* OpenHandle as it would be if open set the flag itself
OpenHandleEager(hr, args) ==
    [hr EXCEPT !.connectUri = FormatUri(args).uri,
               !.connectOptions = FormatUri(args).options,
               !.connected = TRUE]

\* Connection.prototype.open on the handle record: formatUri, then
\* conn.once('connected', ...) adds a listener
OpenHandle(hr, args) ==
    [hr EXCEPT !.connectUri = FormatUri(args).uri,
               !.connectOptions = FormatUri(args).options,
               !.listeners = @ + 1]

\* conn.openUri(this.connectUri, this.connectOptions, callback)
OpenRequest(h, c, args) ==
    [kind |-> "open", h |-> h, call |-> c, uri |-> FormatUri(args).uri,
     options |-> FormatUri(args).options, then |-> "callback", args |-> args]

\* conn.close(...) with the callback to run on completion
CloseRequest(h, c, then, args) ==
    [kind |-> "close", h |-> h, call |-> c, uri |-> <<>>,
     options |-> EmptyOptions, then |-> then, args |-> args]

\* ReopenConnected as it would be if the open did not wait for the close
ReopenConnectedAtOnce(h, c, args) ==
    [handles |-> [handles EXCEPT ![h] = OpenHandle(@, args)],
     pending |-> pending \cup {CloseRequest(h, c, "none", args),
                               OpenRequest(h, c, args)},
     openIssued |-> TRUE]

\* connectDatebase on a handle whose flag is true:
\* connection.close(function() { ...; connection.open(...args) })
ReopenConnected(h, c, args) ==
    [handles |-> handles,
     pending |-> pending \cup {CloseRequest(h, c, "reopen", args)},
     openIssued |-> FALSE]

\* connectDatebase on a handle whose flag is false: connection.open(...args)
ReopenDisconnected(h, c, args) ==
    [handles |-> [handles EXCEPT ![h] = OpenHandle(@, args)],
     pending |-> pending \cup {OpenRequest(h, c, args)},
     openIssued |-> TRUE]

\* connectDatebase(connectedName, ...args), the name being registered
ConnectExisting(name, args) ==
    LET h == RegGet(name)
        c == Len(calls) + 1
        r == IF handles[h].connected THEN ReopenConnected(h, c, args)
             ELSE ReopenDisconnected(h, c, args)
    IN /\ Len(calls) < MaxCalls
       /\ RegGet(name) # 0
       /\ handles' = r.handles
       /\ pending' = r.pending
       /\ calls' = Append(calls,
                     [NewCall("connect", name, args, h, handles[h].connected)
                         EXCEPT !.ret = exportsObj[name],
                                !.openIssued = r.openIssued])
       /\ UNCHANGED <<exportsObj, registry, accVars>>

\* connectDatebase(connectedName, ...args), the name not being registered:
\* this[name] = new Connection(name, ...args); this._connections[name] = this[name]
ConnectNew(name, args) ==
    LET h == Len(handles) + 1
        c == Len(calls) + 1
        nh == OpenHandle(NewHandle(name), args)
        exp == [exportsObj EXCEPT ![name] = h]
        reg == exp["_connections"]
    IN /\ Len(calls) < MaxCalls
       /\ RegGet(name) = 0
       /\ exportsObj' = exp
       /\ registry' = IF reg = 0 THEN [registry EXCEPT ![name] = h] ELSE registry
       /\ handles' =
             IF reg = 0 THEN Append(handles, nh)
             ELSE [Append(handles, nh) EXCEPT ![reg].props[name] = h]
       /\ pending' = pending \cup {OpenRequest(h, c, args)}
       /\ calls' = Append(calls,
                     [NewCall("connect", name, args, 0, FALSE)
                         EXCEPT !.ret = exp[name], !.openIssued = TRUE])
       /\ UNCHANGED accVars

\* closeDatabase(connectedName, callback), the name being registered
CloseDatabase(name) ==
    LET h == RegGet(name)
        c == Len(calls) + 1
    IN /\ Len(calls) < MaxCalls
       /\ RegGet(name) # 0
       /\ pending' = pending \cup {CloseRequest(h, c, "callback", <<>>)}
       /\ calls' = Append(calls,
                     NewCall("close", name, <<>>, h, handles[h].connected))
       /\ UNCHANGED <<exportsObj, registry, handles, accVars>>

\* closeDatabase(connectedName, callback), no handle registered: return
CloseDatabaseUnknown(name) ==
    /\ Len(calls) < MaxCalls
    /\ RegGet(name) = 0
    /\ calls' = Append(calls, NewCall("close", name, <<>>, 0, FALSE))
    /\ UNCHANGED <<exportsObj, registry, handles, pending, accVars>>

\* the driver connects: it emits 'connected', which runs and drops every
\* once-listener (this.connected = true), and calls the open callback
OpenSucceeds(r) ==
    /\ r \in pending
    /\ r.kind = "open"
    /\ pending' = pending \ {r}
    /\ handles' = [handles EXCEPT
                      ![r.h].drvOpen = TRUE,
                      ![r.h].drvUri = r.uri,
                      ![r.h].connected = IF handles[r.h].listeners > 0
                                         THEN TRUE ELSE @,
                      ![r.h].listeners = 0]
    /\ calls' = [calls EXCEPT ![r.call].openCb = "ok"]
    /\ UNCHANGED <<exportsObj, registry, accVars>>

\* the driver fails to connect: it calls the open callback with the error
OpenFails(r) ==
    /\ r \in pending
    /\ r.kind = "open"
    /\ pending' = pending \ {r}
    /\ handles' = [handles EXCEPT ![r.h].drvOpen = FALSE]
    /\ calls' = [calls EXCEPT ![r.call].openCb = "error"]
    /\ UNCHANGED <<exportsObj, registry, accVars>>

\* the driver completes a close issued by connectDatebase: the callbacks set
\* connected = false, then connection.open(...args)
CloseDoneReopen(r) ==
    /\ r \in pending
    /\ r.kind = "close"
    /\ r.then = "reopen"
    /\ pending' = (pending \ {r}) \cup {OpenRequest(r.h, r.call, r.args)}
    /\ handles' = [handles EXCEPT
                      ![r.h] = OpenHandle([@ EXCEPT !.drvOpen = FALSE,
                                                    !.connected = FALSE],
                                          r.args)]
    /\ calls' = [calls EXCEPT ![r.call].closeDone = TRUE,
                              ![r.call].openIssued = TRUE]
    /\ UNCHANGED <<exportsObj, registry, accVars>>

\* CloseDone as it would be if close returned at once, without calling back,
\* on a handle that is not open
CloseDoneOnlyWhenOpen(r) ==
    /\ r \in pending
    /\ r.kind = "close"
    /\ r.then # "reopen"
    /\ pending' = pending \ {r}
    /\ handles' = [handles EXCEPT ![r.h].drvOpen = FALSE,
                                  ![r.h].connected = FALSE]
    /\ calls' = [calls EXCEPT ![r.call].closeDone = TRUE,
                              ![r.call].cbCount =
                                  IF handles[r.h].drvOpen THEN @ + 1 ELSE @]
    /\ UNCHANGED <<exportsObj, registry, accVars>>

\* the driver completes a close issued by closeDatabase (or one whose open was
\* issued at once): the callbacks set connected = false and call the caller's
CloseDone(r) ==
    /\ r \in pending
    /\ r.kind = "close"
    /\ r.then # "reopen"
    /\ pending' = pending \ {r}
    /\ handles' = [handles EXCEPT ![r.h].drvOpen = FALSE,
                                  ![r.h].connected = FALSE]
    /\ calls' = [calls EXCEPT ![r.call].closeDone = TRUE,
                              ![r.call].cbCount = @ + 1]
    /\ UNCHANGED <<exportsObj, registry, accVars>>

\* module.exports as loaded: _connections: {}, the accessor unused
InitReg ==
    /\ coll = <<>>
    /\ op = IdleOp
    /\ exportsObj = NoProps
    /\ registry = NoProps
    /\ handles = <<>>
    /\ calls = <<>>
    /\ pending = {}

\* the accessor over any stored collection, the registry unused
InitAcc ==
    /\ coll \in Collections
    /\ op = IdleOp
    /\ exportsObj = NoProps
    /\ registry = NoProps
    /\ handles = <<>>
    /\ calls = <<>>
    /\ pending = {}

\* the accessor used by one caller, one operation at a time
NextAcc ==
    \/ \E q \in Filters : GetCall(q, NoOptions)
    \/ ExecDone
    \/ \E i \in Ids : GetByIdCall(i)
    \/ FindByIdDone
    \/ \E q \in Filters : GetOneCall(q)
    \/ FindOneDone
    \/ \E q \in Filters, x \in Vals : SetCall(q, x)
    \/ SetFindDone
    \/ SetUpdateDone
    \/ \E i \in Ids, x \in Vals : SetByIdCall(i, x)
    \/ \E i \in Ids, x \in Vals : UpdateByIdCall(i, x)
    \/ FindByIdAndUpdateDone
    \/ \E q \in Filters, x \in Vals, m \in BOOLEAN : UpdateCall(q, x, m)
    \/ UpdateDone
    \/ \E q \in Filters : DeleteCall(q)
    \/ DeleteFindDone
    \/ RemoveDone
    \/ \E i \in Ids : DeleteByIdCall(i)
    \/ FindByIdAndRemoveDone
    \/ \E x \in Vals : CreateCall(x)
    \/ CreateDone

SpecAcc == InitAcc /\ [][NextAcc]_vars

\* the filters offered to get: {}, {v: 1}, {_id: {$gt: 2}}
GetFilters ==
    {NoFilter, [NoFilter EXCEPT !.v = EqC(1)], [NoFilter EXCEPT !.id = GtC(2)]}

\* the first get of a behaviour
GetFirst(query, options) ==
    /\ op.pc = "idle"
    /\ GetCall(query, options)

\* the caller repeats a successful call with the same query and options objects
GetAgain ==
    /\ op.pc = "done"
    /\ op.name = "get"
    /\ op.cb.err = "none"
    /\ op.round = 0
    /\ LET g == GetPlan(op.queryObj, op.optionsObj)
       IN op' = [StartGet(op, op.queryObj, op.optionsObj)
                    EXCEPT !.queryObj = g.query, !.optionsObj = g.options,
                           !.round = 1, !.prev = op.cb, !.cb = NoCb]
    /\ UNCHANGED <<coll, regVars>>

\* get alone, over every options bag
NextGet ==
    \/ \E q \in GetFilters, o \in OptionsBags : GetFirst(q, o)
    \/ GetAgain
    \/ ExecDone

SpecGet == InitAcc /\ [][NextGet]_vars

\* the first set or delete of a behaviour
SetFirst(query, x) ==
    /\ op.pc = "idle"
    /\ SetCall(query, x)

DeleteFirst(query) ==
    /\ op.pc = "idle"
    /\ DeleteCall(query)

\* one set or delete, with the writes of other operations completing at any
\* point while it waits for the driver
NextRace ==
    \/ \E q \in Filters, x \in Vals : SetFirst(q, x)
    \/ SetFindDone
    \/ SetUpdateDone
    \/ ExecDone
    \/ \E q \in Filters : DeleteFirst(q)
    \/ DeleteFindDone
    \/ RemoveDone
    \/ \E q \in Filters, x \in Vals : OtherUpdateDone(q, x)
    \/ \E q \in Filters : OtherRemoveDone(q)
    \/ \E x \in Vals : OtherCreateDone(x)

SpecRace == InitAcc /\ [][NextRace]_vars

\* the registry used by one process: calls, and the driver's completions
NextReg ==
    \/ \E n \in Names, a \in OpenArgs : ConnectNew(n, a)
    \/ \E n \in Names, a \in OpenArgs : ConnectExisting(n, a)
    \/ \E n \in Names : CloseDatabase(n)
    \/ \E n \in Names : CloseDatabaseUnknown(n)
    \/ \E r \in pending : OpenSucceeds(r)
    \/ \E r \in pending : OpenFails(r)
    \/ \E r \in pending : CloseDoneReopen(r)
    \/ \E r \in pending : CloseDone(r)

SpecReg == InitReg /\ [][NextReg]_vars

\* the first connectDatebase of a behaviour
ConnectFirst(name, args) ==
    /\ calls = <<>>
    /\ ConnectNew(name, args)

\* the caller connects again under the same name with the same argument
\* objects, as the earlier call left them
ConnectSame ==
    /\ calls # <<>>
    /\ ConnectExisting(calls[1].name, ArgsAfter(calls[Len(calls)].args))

\* one handle opened over every options argument, then re-opened with the
\* same objects
NextOpen ==
    \/ \E a \in UriArgs : ConnectFirst("a", a)
    \/ ConnectSame
    \/ \E r \in pending : OpenSucceeds(r)
    \/ \E r \in pending : OpenFails(r)
    \/ \E r \in pending : CloseDoneReopen(r)

SpecOpen == InitReg /\ [][NextOpen]_vars

(***************************************************************************)
(* Properties of the registry and of the connection handle.                *)
(***************************************************************************)
ConnectCalls == {c \in 1..Len(calls) : calls[c].fn = "connect"}

HandlesNamed(n) == {h \in 1..Len(handles) : handles[h].name = n}

\* C1: the registry holds at most one handle per name, every
\* connectDatebase(name, ...) returns the handle the first one created, and
\* the returned value is the handle stored in the name -> handle map.
C1_OneHandlePerName ==
    /\ \A n \in Names : Cardinality(HandlesNamed(n)) <= 1
    /\ \A c1, c2 \in ConnectCalls :
          calls[c1].name = calls[c2].name => calls[c1].ret = calls[c2].ret
    /\ (calls # <<>> /\ calls[Len(calls)].fn = "connect")
          => calls[Len(calls)].ret = RegGet(calls[Len(calls)].name)

\* C2: connectDatebase on a handle whose flag is true requests a close first;
\* the open with the new arguments is issued only after that close completed,
\* and the call returns the same handle.
C2_CloseBeforeReopen ==
    \A c \in ConnectCalls :
        calls[c].wasConnected
            => /\ calls[c].ret = calls[c].handle
               /\ ~calls[c].closeDone
                     => \E r \in pending :
                           r.kind = "close" /\ r.call = c /\ r.h = calls[c].handle
               /\ calls[c].openIssued => calls[c].closeDone
               /\ \A r \in pending :
                     (r.kind = "open" /\ r.call = c)
                         => /\ calls[c].closeDone
                            /\ r.h = calls[c].handle
                            /\ r.uri = FormatUri(calls[c].args).uri

\* a connected handle was reconnected to another target: the close completed,
\* then the new open succeeded
C2_Witness ==
    \E c \in ConnectCalls :
        /\ calls[c].wasConnected
        /\ calls[c].closeDone
        /\ calls[c].openCb = "ok"
        /\ calls[c].args # calls[1].args
        /\ handles[calls[c].handle].connected
        /\ handles[calls[c].handle].drvUri = FormatUri(calls[c].args).uri

\* the open requests the driver completes in this step
OpensCompleted == {r \in pending \ pending' : r.kind = "open"}

\* C3: a handle starts with connected = false; connected changes from false
\* to true only when the driver signals a successful connection for an open;
\* a failed open delivers the error to the open callback and leaves connected
\* false.
C3_ConnectedOnlyAfterDriverSuccess ==
    [][/\ \A h \in 1..Len(handles') :
             h > Len(handles) => ~handles'[h].connected
       /\ \A h \in 1..Len(handles) :
             (~handles[h].connected /\ handles'[h].connected)
                 => \E r \in OpensCompleted :
                       /\ r.h = h
                       /\ handles'[h].drvOpen
                       /\ calls'[r.call].openCb = "ok"
       /\ \A r \in OpensCompleted :
             ~handles'[r.h].drvOpen
                 => /\ calls'[r.call].openCb = "error"
                    /\ ~handles[r.h].connected => ~handles'[r.h].connected]_vars

\* one open failed and left its handle disconnected; another open succeeded
\* and its handle is connected
C3_Witness ==
    \E c1, c2 \in ConnectCalls :
        /\ calls[c1].openCb = "error"
        /\ ~handles[calls[c1].ret].connected
        /\ calls[c2].openCb = "ok"
        /\ handles[calls[c2].ret].connected

(***************************************************************************)
(* Properties of the accessor.                                             *)
(***************************************************************************)
\* the existence check of set or delete completes in this step
CheckCompletes ==
    /\ op.pc \in {"setFind", "deleteFind"}
    /\ op'.pc # op.pc
    /\ op'.cb.err # "driver"

\* C4: when the filter matches no document at the existence check, set and
\* delete deliver a NotFound error as the first callback element, issue no
\* update/remove request, and leave the collection unchanged.
C4_NotFoundNoMutation ==
    [][(CheckCompletes /\ SelectMatching(coll, op.query) = <<>>)
        => /\ op'.pc = "done"
           /\ op'.cb = CbError("not found")
           /\ op'.writes = 0
           /\ coll' = coll]_vars

\* a set whose filter matches nothing in a collection that holds documents
C4_Witness ==
    /\ op.name = "set"
    /\ op.pc = "done"
    /\ op.cb.err = "not found"
    /\ coll # <<>>
    /\ SelectMatching(coll, op.query) = <<>>

\* the documents of c with the ids of the documents ds
RECURSIVE WithIdsOf(_, _)
WithIdsOf(c, ds) ==
    IF c = <<>> THEN <<>>
    ELSE IF \E k \in 1..Len(ds) : ds[k].id = Head(c).id
         THEN <<Head(c)>> \o WithIdsOf(Tail(c), ds)
         ELSE WithIdsOf(Tail(c), ds)

\* C5: when the filter matches one or more documents, set updates all of them
\* and its callback receives the re-fetched post-update state of every affected
\* document.
C5_SetReturnsAllAffected ==
    (op.name = "set" /\ op.pc = "done" /\ op.cb.err = "none")
        => /\ \A k \in 1..Len(coll) :
                 (\E j \in 1..Len(op.found) : op.found[j].id = coll[k].id)
                     => coll[k].v = op.data
           /\ op.cb.res = WithIdsOf(coll, op.found)

\* the documents the callback of a successful get received
Got == op.cb.res

GetDone == op.name = "get" /\ op.pc = "done" /\ op.cb.err = "none"

\* the page number get uses
PageOf(o) == IF o.page = 0 THEN 1 ELSE o.page

\* C6: with lastId L and page size P > 0, get({}, ...) returns only documents
\* with id > L, at most P of them, applies no skip, and the result is the same
\* for every value of page.
C6_CursorPaging ==
    (op.name = "get" /\ op.round = 0 /\ op.query = NoFilter
        /\ op.options.pageSize > 0 /\ op.options.lastId # 0)
        => /\ ~op.plan.hasSkip
           /\ GetDone =>
                /\ Len(Got) <= op.options.pageSize
                /\ \A k \in 1..Len(Got) :
                      /\ Got[k].id > op.options.lastId
                      /\ \E j \in 1..Len(coll) : coll[j] = Got[k]
                /\ \A n \in 0..MaxPage :
                      Got = ExecPlan(coll,
                              GetPlan(NoFilter,
                                      [op.options EXCEPT !.page = n]).plan)

\* a cursor page that is cut by the page size, asked for with page 2
C6_Witness ==
    /\ GetDone
    /\ op.round = 0
    /\ op.query = NoFilter
    /\ op.options.pageSize = 1
    /\ op.options.lastId = 1
    /\ op.options.page = 2
    /\ Len(Got) = 1
    /\ Len(coll) = 3

\* positions a..b of s, cut at the end of s
Slice(s, a, b) == SubSeq(s, a, Min(b, Len(s)))

\* C7: with page size P > 0, page N >= 1 and no lastId, get({}, ...) sets
\* skip = P*(N-1) and limit = P (page defaulting to 1), returns positions
\* [(N-1)*P .. N*P) of the documents in the effective sort order, and a
\* repeated call returns the same documents.
C7_OffsetPaging ==
    (op.name = "get" /\ op.query = NoFilter
        /\ op.options.pageSize > 0 /\ op.options.lastId = 0)
        => LET P == op.options.pageSize
               N == PageOf(op.options)
           IN /\ op.plan.hasSkip /\ op.plan.skip = P * (N - 1)
              /\ op.plan.hasLimit /\ op.plan.limit = P
              /\ GetDone =>
                   Got = Slice(SortDocs(coll, op.plan.sort),
                               (N - 1) * P + 1, N * P)
              /\ (GetDone /\ op.round = 1 /\ op.prev.err = "none")
                   => Got = op.prev.res

\* the second page of size 1 of three documents, fetched twice
C7_Witness ==
    /\ GetDone
    /\ op.round = 1
    /\ op.prev.err = "none"
    /\ op.query = NoFilter
    /\ op.options.pageSize = 1
    /\ op.options.page = 2
    /\ op.options.lastId = 0
    /\ Len(coll) = 3
    /\ Got = <<coll[2]>>

\* C8: a get with a zero or negative pageSize is rejected with an
\* InvalidOptions error and is never forwarded to the driver as a skip/limit.
C8_NonPositivePageSizeRejected ==
    (op.name = "get" /\ op.options.pageSize < 0)
        => /\ ~op.plan.hasSkip
           /\ ~op.plan.hasLimit
           /\ op.pc = "done" => op.cb.err = "invalid options"

\* C9: sort resolution.  Paging without a sort sorts descending on the id; a
\* bare direction applies to the id; a mapping is applied verbatim; without
\* paging and sort the query is the base filter with no skip, limit or sort.
C9_SortResolution ==
    (op.name = "get" /\ op.round = 0)
        => LET o == op.options
           IN /\ (o.pageSize # 0 /\ ~SortGiven(o.sort))
                    => op.plan.sort = MapSort("id", 0 - 1)
              /\ (o.sort.kind = "dir" /\ o.sort.dir # 0)
                    => op.plan.sort = MapSort("id", o.sort.dir)
              /\ o.sort.kind = "map" => op.plan.sort = o.sort
              /\ (o.pageSize = 0 /\ ~SortGiven(o.sort))
                    => op.plan = [NoPlan EXCEPT !.filter = op.query]

\* a page without a sort option that came back in descending id order
C9_Witness ==
    /\ GetDone
    /\ op.round = 0
    /\ op.options.pageSize = 2
    /\ op.options.sort = NoSort
    /\ op.options.lastId = 0
    /\ Len(Got) = 2
    /\ Got[1].id > Got[2].id

PointOps == {"getById", "getOne", "setById", "updateById", "deleteById"}

\* C10: a point operation whose id or filter matches no document delivers a
\* NotFound error as the first callback element, never a success with an empty
\* result.
C10_PointOpsNotFound ==
    (op.name \in PointOps /\ op.pc = "done" /\ op.cb.isNull)
        => op.cb.err # "none"


\* C11: update forwards filter, update expression and options to the driver
\* unmodified, and on success its callback receives exactly the documents the
\* update modified, in their state after the update.
C11_UpdateDeliversModified ==
    (op.name = "update" /\ op.pc = "done" /\ op.cb.err = "none")
        => op.cb.res = WithIdsOf(coll, op.found)


(***************************************************************************)
(* Further properties of the registry and of the connection handle.        *)
(***************************************************************************)
\* the close requests of closeDatabase the driver completes in this step
ClosesCompleted ==
    {r \in pending \ pending' : r.kind = "close" /\ r.then = "callback"}

\* closeDatabase is called in this step with a name that has no handle
ClosesUnknown ==
    /\ Len(calls') = Len(calls) + 1
    /\ calls'[Len(calls')].fn = "close"
    /\ RegGet(calls'[Len(calls')].name) = 0

Supplied(a, f) == IF a.opts.kind = "object" THEN a.opts[f] ELSE ""

\* mongodb://[user:pass@]host:port/db for the arguments a
UriFor(a) ==
    <<"mongodb://">>
        \o (IF Supplied(a, "user") # "" /\ Supplied(a, "pass") # ""
            THEN <<Supplied(a, "user"), ":", Supplied(a, "pass"), "@">>
            ELSE <<>>)
        \o <<a.host, ":">>
        \o (IF Supplied(a, "port") # "" THEN <<Supplied(a, "port")>>
            ELSE <<"27017">>)
        \o <<"/", a.db>>

OpenRequests == {r \in pending : r.kind = "open"}

\* C13 as stated: every open request carries the URI
\* mongodb://[user:pass@]host:port/db with port defaulting to 27017 and the
\* credentials present exactly when user and pass are both supplied; the
\* forwarded options hold no user, pass or port, and every other supplied
\* option is forwarded as supplied.
C13_OpenUriAndOptions ==
    \A r \in OpenRequests :
        /\ r.uri = UriFor(r.args)
        /\ r.options.user = "" /\ r.options.pass = "" /\ r.options.port = ""
        /\ \A f \in {"poolSize", "useMongoClient"} :
              Supplied(r.args, f) # "" => r.options[f] = Supplied(r.args, f)

\* C13 amended: as C13, except that useMongoClient is forwarded as true
\* whatever the caller supplied; every other supplied option is forwarded as
\* supplied.
C13_OpenUriAndOptionsForced ==
    \A r \in OpenRequests :
        /\ r.uri = UriFor(r.args)
        /\ r.options.user = "" /\ r.options.pass = "" /\ r.options.port = ""
        /\ r.options.poolSize = Supplied(r.args, "poolSize")
        /\ r.options.useMongoClient = "true"

\* an open with credentials, a port and a pool size is at the driver: the
\* URI holds the credentials and the port, the options only the pool size
C13_Witness ==
    \E r \in OpenRequests :
        /\ r.args.opts = [kind |-> "object", user |-> "u", pass |-> "p",
                          port |-> "4000", poolSize |-> "5",
                          useMongoClient |-> ""]
        /\ r.uri = <<"mongodb://", "u", ":", "p", "@", "h1", ":", "4000", "/",
                     "d1">>
        /\ r.options = [EmptyOptions EXCEPT !.poolSize = "5",
                                            !.useMongoClient = "true"]


(***************************************************************************)
(* Further properties of the accessor.                                     *)
(***************************************************************************)
\* the documents of c that match f and have an id above L, by ascending id
MatchingAbove(c, f, L) ==
    SortDocs(SelectMatching(SelectMatching(c, f), [NoFilter EXCEPT !.id = GtC(L)]),
             MapSort("id", 1))

\* C14: with lastId L, page size P > 0 and no explicit sort, get(F, ...)
\* returns the P smallest-id documents that match F and have id > L, in
\* ascending id order, so that following lastId from page to page visits
\* every matching document once.
C14_CursorPagesAscend ==
    (GetDone /\ op.round = 0 /\ op.query.id = AnyC
        /\ op.options.pageSize > 0 /\ op.options.lastId # 0
        /\ ~SortGiven(op.options.sort))
        => Got = Slice(MatchingAbove(coll, op.query, op.options.lastId),
                       1, op.options.pageSize)


\* C16: with pageSize and lastId L both set, the id bound is added to the
\* base filter F, not put in place of a part of it: every returned document
\* satisfies all of F, a constraint of F on the id included, and has id > L.
C16_IdBoundAddedToFilter ==
    (GetDone /\ op.round = 0 /\ op.options.pageSize > 0
        /\ op.options.lastId # 0)
        => \A k \in 1..Len(Got) :
              /\ Matches(Got[k], op.query)
              /\ Got[k].id > op.options.lastId


\* set or delete waits for the write it requested after its existence check
BetweenCheckAndWrite == op.pc \in {"setUpdate", "remove"}

\* C15: in set and delete the existence check and the write are two separate
\* driver requests with nothing serializing them against other operations:
\* the step that completes the check leaves the collection as it is and at
\* most requests the write, and while that write is outstanding the writes
\* of other operations can take effect.
C15_CheckThenActNotAtomic ==
    [][/\ CheckCompletes
             => /\ coll' = coll
                /\ op'.cb.err = "none"
                      => /\ op'.pc \in {"setUpdate", "remove"}
                         /\ op'.writes = op.writes + 1
       /\ BetweenCheckAndWrite
             => /\ ENABLED (\E q \in Filters, x \in Vals : OtherUpdateDone(q, x))
                /\ ENABLED (\E q \in Filters : OtherRemoveDone(q))]_vars

\* a set found one document; before its update took effect another
\* operation's write changed which documents match, and the update then
\* wrote to a document the check had not seen
C15_Witness ==
    /\ op.name = "set"
    /\ op.pc = "done"
    /\ op.cb.err = "none"
    /\ op.raced
    /\ Len(op.found) = 1
    /\ \E k \in 1..Len(coll) :
          /\ coll[k].id # op.found[1].id
          /\ coll[k].v = op.data
          /\ op.query = [NoFilter EXCEPT !.v = EqC(1 - op.data)]

\* the remove of a delete completes with success in this step
RemoveSucceeds ==
    /\ op.name = "delete"
    /\ op.pc = "remove"
    /\ op'.pc = "done"
    /\ op'.cb.err = "none"

\* C18 as stated: when delete(F) reports success, the documents passed to
\* the callback are exactly the documents its remove removed, under any
\* interleaving with other operations.
C18_DeleteReportsRemoved ==
    [][RemoveSucceeds => op'.cb.res = SelectMatching(coll, op.query)]_vars

\* C18 amended: when delete(F) reports success, the documents passed to the
\* callback are exactly the documents that matched F at the existence check;
\* they are the documents the remove removed whenever no other write took
\* effect between the check and the remove.
C18_DeleteReportsChecked ==
    [][/\ (CheckCompletes /\ op.name = "delete" /\ op'.pc = "remove")
             => op'.found = SelectMatching(coll, op.query)
       /\ RemoveSucceeds
             => /\ op'.cb.res = op.found
                /\ coll' = RemoveMatching(coll, op.query)
                /\ ~op.raced => op'.cb.res = SelectMatching(coll, op.query)]_vars

\* a delete unraced between check and remove reported the two documents it
\* removed, after another write had changed the collection before its check
C18_Witness ==
    /\ op.name = "delete"
    /\ op.pc = "done"
    /\ op.cb.err = "none"
    /\ ~op.raced
    /\ Len(op.cb.res) = 2
    /\ coll # <<>>
    /\ \A k \in 1..Len(coll) : ~Matches(coll[k], op.query)


\* the handle a call acted on: the registered one, or the one it created
CallHandle(c) == IF calls[c].handle # 0 THEN calls[c].handle ELSE calls[c].ret

CallsOn(h) == {c \in 1..Len(calls) : CallHandle(c) = h}

\* the most recent connectDatebase or closeDatabase on the handle h
LastCallOn(h) == CHOOSE c \in CallsOn(h) : \A d \in CallsOn(h) : d <= c

Quiet(h) == \A r \in pending : r.h # h

\* C17: under every interleaving of connectDatebase, closeDatabase and the
\* driver's completions, connected is never true while the driver's
\* connection is closed; once no request is pending on the handle, connected
\* equals the state of the driver's connection and reflects the most recent
\* request: false after a disconnect, true after a connect that succeeded.
C17_FlagTracksConnection ==
    \A h \in 1..Len(handles) :
        /\ handles[h].connected => handles[h].drvOpen
        /\ (Quiet(h) /\ CallsOn(h) # {})
              => /\ handles[h].connected = handles[h].drvOpen
                 /\ calls[LastCallOn(h)].fn = "close" => ~handles[h].connected
                 /\ (calls[LastCallOn(h)].fn = "connect"
                        /\ calls[LastCallOn(h)].openCb = "ok")
                       => handles[h].connected


\* C19: no public operation modifies the objects its caller passed.  After
\* get the filter and the options objects are as the caller passed them (a
\* filter used once with lastId still denotes the original filter); after
\* connectDatebase the options object is as passed, so every connect with
\* the same objects sends the driver the same URI.
C19_ArgumentsUntouched ==
    /\ op.name = "get"
          => /\ op.round = 0 => (op.queryObj = op.query
                                   /\ op.optionsObj = op.options)
             /\ op.round = 1 => op.plan = GetPlan(op.query, op.options).plan
    /\ \A c \in ConnectCalls :
          /\ calls[c].openIssued => ArgsAfter(calls[c].args) = calls[c].args
          /\ \A r \in OpenRequests :
                (r.call = c /\ calls[c].name = calls[1].name
                    /\ calls[c].args.host = calls[1].args.host
                    /\ calls[c].args.db = calls[1].args.db
                    /\ ArgsAfter(calls[c].args) = ArgsAfter(calls[1].args))
                    => r.uri = FormatUri(calls[1].args).uri

\* C20: every closeDatabase(name, callback) invokes callback exactly once,
\* whether or not a handle is registered for name, the driver completing
\* every close: the callback is never invoked twice, and as long as it has
\* not been invoked a close request whose completion invokes it is
\* outstanding.
C20_CloseCallsBackOnce ==
    \A c \in 1..Len(calls) :
        calls[c].fn = "close"
            => /\ calls[c].cbCount <= 1
               /\ calls[c].cbCount = 0
                     => \E r \in pending :
                           r.kind = "close" /\ r.call = c /\ r.then = "callback"

====
